---- MODULE Spec2Model ----
(***************************************************************************)
(* go-mapreader: typed lookups in a map[string]any by a dotted path.       *)
(*                                                                         *)
(* A Go value of static type `any` is a record                             *)
(*     [type, isnil, val]                                                  *)
(* whose type is the dynamic type ("nil" for the nil interface), val the   *)
(* payload: a function from keys to values for map[string]any, a sequence  *)
(* of values for []any, a sequence of one-character strings for string, a  *)
(* sequence of byte values for []byte, a BOOLEAN for bool, an integer for  *)
(* the integer kinds, the number of tenths for float64.  Strings (paths, keys, segments) are sequences of    *)
(* one-character strings, so that strings.Split and strconv.Atoi are       *)
(* computed character by character.                                        *)
(***************************************************************************)
EXTENDS Integers, Sequences, FiniteSets, TLC

VARIABLES
    pc,        \* "idle", "loop" (inside GetErr's for), "got" (GetErr returned
               \* to its caller), "done" (the public operation returned), "panic"
    op,        \* the public operation called
    T,         \* the type parameter GetErr is instantiated with
    source,    \* the tree passed in
    path,      \* the lookup path passed in
    keys,      \* GetErr: strings.Split(path, ".")
    depth,     \* GetErr: len(keys) - 1
    i,         \* GetErr: loop index (0-based, as in the code)
    current,   \* GetErr: the node the walk is at
    got,       \* what GetErr returned: [val, err]
    result,    \* value returned by the error-returning operation
    err,       \* error returned by the error-returning operation
    E,         \* the type parameter of NumberErr, SliceErr, MapErr ("" if none)
    variant,   \* "Err" (XErr), "Plain" (X) or "Default" (XDefault)
    d,         \* the fallback passed to XDefault
    ret,       \* value returned by X or XDefault
    order,     \* the order in which asMapType's range visited the keys
    backing    \* the store of the container returned: "fresh", "tree", "none"

ovars == <<E, variant, d, ret, order, backing>>

vars == <<pc, op, T, source, path, keys, depth, i, current, got, result, err,
          E, variant, d, ret, order, backing>>

----------------------------------------------------------------------------
(* Bounds of the input space.                                              *)

MaxSegs == 3      \* generated paths have 1..MaxSegs segments
MaxKeys == 3      \* generated trees have 1..MaxKeys top-level keys
MaxSeqLen == 3    \* generated trees hold a sequence of 0..MaxSeqLen elements
MaxElems == 3     \* converted slices and maps have 0..MaxElems elements

----------------------------------------------------------------------------
(* Go values.                                                              *)

Nil == [type |-> "nil", isnil |-> TRUE, val |-> <<>>]
StrV(s) == [type |-> "string", isnil |-> FALSE, val |-> s]
BoolV(b) == [type |-> "bool", isnil |-> FALSE, val |-> b]
NumV(kind, n) == [type |-> kind, isnil |-> FALSE, val |-> n]
FloatV(whole, tenths) == NumV("float64", 10 * whole + tenths)
BytesV(bs) == [type |-> "[]byte", isnil |-> FALSE, val |-> bs]
NilBytes == [type |-> "[]byte", isnil |-> TRUE, val |-> <<>>]
SeqV(s) == [type |-> "[]any", isnil |-> FALSE, val |-> s]
NilSeq == [type |-> "[]any", isnil |-> TRUE, val |-> <<>>]
MapV(m) == [type |-> "map[string]any", isnil |-> FALSE, val |-> m]
NilMap == [type |-> "map[string]any", isnil |-> TRUE, val |-> <<>>]

\* The zero value of a type (var nilResult T).
ZeroOf(t) ==
    CASE t = "any" -> Nil
      [] t = "string" -> StrV(<<>>)
      [] t = "bool" -> BoolV(FALSE)
      [] t = "[]byte" -> NilBytes
      [] t = "[]any" -> NilSeq
      [] t = "map[string]any" -> NilMap
      [] OTHER -> NumV(t, 0)

\* The sentinel errors; an error value is the sentinel wrapped with the
\* detail the format string adds.
ErrEndOfNestedStructures == "ErrEndOfNestedStructures"
ErrIndexOutOfBounds == "ErrIndexOutOfBounds"
ErrKeyNotFound == "ErrKeyNotFound"
ErrNonIntegerSliceAccess == "ErrNonIntegerSliceAccess"
ErrUnableToConvert == "ErrUnableToConvert"
ErrUnexpectedType == "ErrUnexpectedType"

ErrorKinds ==
    {ErrEndOfNestedStructures, ErrIndexOutOfBounds, ErrKeyNotFound,
     ErrNonIntegerSliceAccess, ErrUnableToConvert, ErrUnexpectedType}

Errorf(kind, key, index, length, typ) ==
    [kind |-> kind, key |-> key, index |-> index, length |-> length, typ |-> typ,
     value |-> Nil]

\* An error whose detail prints a value (`%v`) and a type (`%T`).
ErrorfValue(kind, v, typ) ==
    [kind |-> kind, key |-> <<>>, index |-> 0, length |-> 0, typ |-> typ,
     value |-> v]

NoErr == Errorf("nil", <<>>, 0, 0, "")

----------------------------------------------------------------------------
(* Strings.                                                                *)

Digits == {"0", "1", "2", "3", "4", "5", "6", "7", "8", "9"}

DigitVal(ch) ==
    CASE ch = "0" -> 0 [] ch = "1" -> 1 [] ch = "2" -> 2 [] ch = "3" -> 3
      [] ch = "4" -> 4 [] ch = "5" -> 5 [] ch = "6" -> 6 [] ch = "7" -> 7
      [] ch = "8" -> 8 [] ch = "9" -> 9

\* The byte a character is stored as ([]byte(v) of a string v).
ByteOf(ch) ==
    CASE ch \in Digits -> 48 + DigitVal(ch)
      [] ch = "+" -> 43 [] ch = "-" -> 45 [] ch = "." -> 46 [] ch = "_" -> 95
      [] ch = "a" -> 97 [] ch = "b" -> 98 [] ch = "c" -> 99 [] ch = "e" -> 101
      [] ch = "l" -> 108 [] ch = "u" -> 117 [] ch = "v" -> 118 [] ch = "x" -> 120

StringToBytes(s) == [j \in 1..Len(s) |-> ByteOf(s[j])]

\* strings.Index(s, "."), 0-based, -1 when there is no separator.
IndexDot(s) ==
    IF \E j \in 1..Len(s) : s[j] = "."
    THEN (CHOOSE j \in 1..Len(s) : s[j] = "." /\ \A h \in 1..(j - 1) : s[h] # ".") - 1
    ELSE -1

\* strings.Split(s, "."): the pieces between the separators, always at least
\* one piece (the empty string splits into one empty piece).
RECURSIVE Split(_)
Split(s) ==
    LET m == IndexDot(s)
    IN IF m < 0 THEN <<s>>
       ELSE <<SubSeq(s, 1, m)>> \o Split(SubSeq(s, m + 2, Len(s)))

\* Largest and smallest int (64 bit), as decimal digits without sign.
MaxIntDigits ==
    <<"9","2","2","3","3","7","2","0","3","6","8","5","4","7","7","5","8","0","7">>
MinIntDigits ==
    <<"9","2","2","3","3","7","2","0","3","6","8","5","4","7","7","5","8","0","8">>

RECURSIVE StripZeros(_)
StripZeros(ds) ==
    IF Len(ds) > 0 /\ ds[1] = "0" THEN StripZeros(Tail(ds)) ELSE ds

\* a <= b for digit strings without leading zeros.
DigitsLeq(a, b) ==
    \/ Len(a) < Len(b)
    \/ /\ Len(a) = Len(b)
       /\ \/ a = b
          \/ \E j \in 1..Len(a) :
                /\ \A h \in 1..(j - 1) : a[h] = b[h]
                /\ DigitVal(a[j]) < DigitVal(b[j])

RECURSIVE DecVal(_)
DecVal(ds) ==
    IF Len(ds) = 0 THEN 0
    ELSE 10 * DecVal(SubSeq(ds, 1, Len(ds) - 1)) + DigitVal(ds[Len(ds)])

\* Atoi without the sign: digits only.
Atoi_Unsigned(s) ==
    IF Len(s) > 0 /\ (\A j \in 1..Len(s) : s[j] \in Digits)
          /\ (Len(s) < 19 \/ DigitsLeq(StripZeros(s), MaxIntDigits))
    THEN [ok |-> TRUE, n |-> DecVal(StripZeros(s))]
    ELSE [ok |-> FALSE, n |-> 0]

\* strconv.Atoi(s): [ok, n].  A syntax error for anything but an optional
\* sign followed by one or more digits; a range error for a literal that
\* does not fit an int.  Both are a non-nil err to the caller.
Atoi(s) ==
    LET signed == Len(s) > 0 /\ s[1] \in {"+", "-"}
        neg == Len(s) > 0 /\ s[1] = "-"
        ds == IF signed THEN Tail(s) ELSE s
        syntaxOk == Len(ds) > 0 /\ \A j \in 1..Len(ds) : ds[j] \in Digits
        sig == StripZeros(ds)
        inRange == \/ Len(s) < 19
                   \/ DigitsLeq(sig, IF neg THEN MinIntDigits ELSE MaxIntDigits)
    IN IF syntaxOk /\ inRange
       THEN [ok |-> TRUE, n |-> IF neg THEN 0 - DecVal(sig) ELSE DecVal(sig)]
       ELSE [ok |-> FALSE, n |-> 0]

----------------------------------------------------------------------------
(* GetErr: one iteration of `for i, k := range keys`.                      *)

Cont(v) == [kind |-> "cont", val |-> v, err |-> NoErr]
Fail(e) == [kind |-> "return", val |-> Nil, err |-> e]
Panic == [kind |-> "panic", val |-> Nil, err |-> NoErr]

\* len(x) of a map or a slice.
LenOf(x) ==
    IF x.type = "map[string]any" THEN Cardinality(DOMAIN x.val) ELSE Len(x.val)

\* `%T` of a value.
TypeName(x) == IF x.type = "nil" THEN "<nil>" ELSE x.type

\* The lookup without the ok check: a missing key reads as nil.
MapCase_NoOkCheck(c, k) ==
    Cont(IF k \in DOMAIN c.val THEN c.val[k] ELSE Nil)

\* A segment that parses as an integer is taken as an index first.
MapCase_IndexFirst(c, k) ==
    IF Atoi(k).ok
    THEN Fail(Errorf(ErrIndexOutOfBounds, <<>>, Atoi(k).n, Cardinality(DOMAIN c.val), ""))
    ELSE IF k \in DOMAIN c.val
    THEN Cont(c.val[k])
    ELSE Fail(Errorf(ErrKeyNotFound, k, 0, 0, ""))

\* case map[string]any: v, ok := c[k]
MapCase(c, k) ==
    IF k \in DOMAIN c.val
    THEN Cont(c.val[k])
    ELSE Fail(Errorf(ErrKeyNotFound, k, 0, 0, ""))

\* The bounds check guarding c[i].
OutOfBounds(n, c, src) == n < 0 \/ n > LenOf(src) - 1

\* case []any: i, err := strconv.Atoi(k); bounds check; current = c[i]
SliceCase(c, k, src) ==
    LET a == Atoi(k)
    IN IF ~a.ok
       THEN Fail(Errorf(ErrNonIntegerSliceAccess, k, 0, 0, ""))
       ELSE IF OutOfBounds(a.n, c, src)
       THEN Fail(Errorf(ErrIndexOutOfBounds, <<>>, a.n, LenOf(src), ""))
       ELSE IF a.n >= Len(c.val)
       THEN Panic       \* c[i] with i >= len(c): index out of range
       ELSE Cont(c.val[a.n + 1])

\* The default case without the depth check.
DefaultCase_NoDepthCheck(c, k, idx, dep) == Cont(c)

\* default: neither a map[string]any nor a []any
DefaultCase(c, k, idx, dep) ==
    IF idx # dep
    THEN Fail(Errorf(ErrEndOfNestedStructures, k, 0, 0, ""))
    ELSE Cont(c)

\* switch c := current.(type)
Switch(c, k, idx, dep, src) ==
    CASE c.type = "map[string]any" -> MapCase(c, k)
      [] c.type = "[]any" -> SliceCase(c, k, src)
      [] OTHER -> DefaultCase(c, k, idx, dep)

\* The assertion to `any` letting the nil interface through.
TypeAssert_NilIsAny(c, t) == t = "any" \/ c.type = t

\* current.(T): ok
TypeAssert(c, t) ==
    IF t = "any" THEN c.type # "nil" ELSE c.type = t

\* if i == depth { result, ok := current.(T); ... }
Terminal(c, t) ==
    IF TypeAssert(c, t)
    THEN [val |-> c, err |-> NoErr]
    ELSE [val |-> ZeroOf(t),
          err |-> Errorf(ErrUnexpectedType, <<>>, 0, 0, TypeName(c))]

\* The body of the loop without the return at the last segment.
LoopBody_NoTerminalReturn(c, ks, idx, dep, t, src) ==
    LET sw == Switch(c, ks[idx + 1], idx, dep, src)
    IN CASE sw.kind = "return" ->
              [kind |-> "return", val |-> ZeroOf(t), err |-> sw.err, cur |-> c]
         [] sw.kind = "panic" ->
              [kind |-> "panic", val |-> ZeroOf(t), err |-> NoErr, cur |-> c]
         [] OTHER ->
              [kind |-> "cont", val |-> ZeroOf(t), err |-> NoErr, cur |-> sw.val]

\* The body of the loop at index idx, the walk being at node c: how the
\* iteration ends (kind), the value and error it returns with, and the node
\* `current` holds afterwards (cur).
LoopBody(c, ks, idx, dep, t, src) ==
    LET sw == Switch(c, ks[idx + 1], idx, dep, src)
    IN CASE sw.kind = "return" ->
              [kind |-> "return", val |-> ZeroOf(t), err |-> sw.err, cur |-> c]
         [] sw.kind = "panic" ->
              [kind |-> "panic", val |-> ZeroOf(t), err |-> NoErr, cur |-> c]
         [] sw.kind = "cont" /\ idx = dep ->
              [kind |-> "return", val |-> Terminal(sw.val, t).val,
               err |-> Terminal(sw.val, t).err, cur |-> sw.val]
         [] OTHER ->
              [kind |-> "cont", val |-> ZeroOf(t), err |-> NoErr, cur |-> sw.val]

\* The conversion without the string case.
BytesConv_NoStringCase(value) ==
    IF value.type = "[]byte"
    THEN [val |-> value, err |-> NoErr]
    ELSE [val |-> NilBytes,
          err |-> Errorf(ErrUnableToConvert, <<>>, 0, 0, TypeName(value))]

\* case string: []byte(v); case []byte: v; default: ErrUnableToConvert
BytesConv(value) ==
    CASE value.type = "string" ->
            [val |-> BytesV(StringToBytes(value.val)), err |-> NoErr]
      [] value.type = "[]byte" -> [val |-> value, err |-> NoErr]
      [] OTHER ->
            [val |-> NilBytes,
             err |-> Errorf(ErrUnableToConvert, <<>>, 0, 0, TypeName(value))]

----------------------------------------------------------------------------
(* Numbers: asNumberType and convertNumber.                                *)

\* The numeric kinds of asNumberType's switch that the model gives values
\* to.  The other kinds of the switch (float32, int32, int64, uint, uint32,
\* uint64) take the same path through convertNumber.
NumKinds == {"float64", "int", "int8", "int16", "uint8", "uint16"}

IsFloat(kind) == kind = "float64"
IsSigned(kind) == kind \in {"int", "int8", "int16"}
Bits(kind) ==
    CASE kind \in {"int8", "uint8"} -> 8
      [] kind \in {"int16", "uint16"} -> 16
      [] kind = "int" -> 64

RECURSIVE Pow2(_)
Pow2(n) == IF n = 0 THEN 1 ELSE 2 * Pow2(n - 1)

\* The integer v stored in an integer kind: v modulo 2^bits, read as signed
\* or unsigned.  No value of the model leaves the range of the 64-bit int.
WrapTo(kind, v) ==
    IF kind = "int" THEN v
    ELSE LET m == Pow2(Bits(kind))
         IN IF IsSigned(kind) THEN ((v + m \div 2) % m) - m \div 2 ELSE v % m

\* The integer part of a float given in tenths (truncation toward zero).
Trunc(x) == IF x >= 0 THEN x \div 10 ELSE 0 - ((0 - x) \div 10)

\* The conversion to(x) of a value x of kind from.  A float outside the
\* range of the integer kind converts to an implementation-dependent value of
\* that kind (here: truncated, then wrapped); whichever it is, converting it
\* back cannot give x.
Convert(to, from, x) ==
    CASE IsFloat(from) /\ IsFloat(to) -> x
      [] IsFloat(from) -> WrapTo(to, Trunc(x))
      [] IsFloat(to) -> 10 * x
      [] OTHER -> WrapTo(to, x)

\* convertNumber without the check of the converted value.
ConvertNumber_NoCheck(to, from, in) ==
    [val |-> NumV(to, Convert(to, from, in)), err |-> NoErr]

\* convertNumber returning the converted value together with the error.
ConvertNumber_KeepsValue(to, from, in) ==
    IF Convert(from, to, Convert(to, from, in)) = in
    THEN [val |-> NumV(to, Convert(to, from, in)), err |-> NoErr]
    ELSE [val |-> NumV(to, Convert(to, from, in)),
          err |-> ErrorfValue(ErrUnableToConvert, NumV(from, in), to)]

\* if converted := R(in); I(converted) == in { return converted, nil }
ConvertNumber(to, from, in) ==
    LET converted == Convert(to, from, in)
    IN IF Convert(from, to, converted) = in
       THEN [val |-> NumV(to, converted), err |-> NoErr]
       ELSE [val |-> NumV(to, 0),
             err |-> ErrorfValue(ErrUnableToConvert, NumV(from, in), to)]

\* asNumberType with strings of digits parsed as numbers.
AsNumberType_ParsesStrings(in, r) ==
    IF in.type \in NumKinds
    THEN ConvertNumber(r, in.type, in.val)
    ELSE IF in.type = "string" /\ Atoi(in.val).ok
    THEN ConvertNumber(r, "int", Atoi(in.val).n)
    ELSE [val |-> NumV(r, 0),
          err |-> ErrorfValue(ErrUnableToConvert, in, r)]

\* switch r := in.(type): a numeric kind goes to convertNumber, anything
\* else is ErrUnexpectedType.
AsNumberType(in, r) ==
    IF in.type \in NumKinds
    THEN ConvertNumber(r, in.type, in.val)
    ELSE [val |-> NumV(r, 0),
          err |-> Errorf(ErrUnexpectedType, <<>>, 0, 0, TypeName(in))]

----------------------------------------------------------------------------
(* Slices and maps: asSliceType and asMapType.                             *)

\* A []e and a map[string]e, and their nil values.
SliceOfV(e, elems) == [type |-> "[]" \o e, isnil |-> FALSE, val |-> elems]
NilSliceOf(e) == [type |-> "[]" \o e, isnil |-> TRUE, val |-> <<>>]
MapOfV(e, m) == [type |-> "map[string]" \o e, isnil |-> FALSE, val |-> m]
NilMapOf(e) == [type |-> "map[string]" \o e, isnil |-> TRUE, val |-> <<>>]

\* result := make([]I, len(in)) aliasing the input instead of allocating.
MakeSlice_Alias(in, e) == [backing |-> "tree", elems |-> in]

\* result := make([]I, len(in)): a new array of zero values.
MakeSlice(in, e) ==
    [backing |-> "fresh", elems |-> [j \in 1..Len(in) |-> ZeroOf(e)]]

\* result := make(map[string]R): a new, empty map.
MakeMap(in, e) == [backing |-> "fresh", elems |-> <<>>]

\* m[k] = v
MapPut(m, k, v) == [x \in (DOMAIN m) \cup {k} |-> IF x = k THEN v ELSE m[x]]

\* The loop of asSliceType from index j on (1-based), acc being result.
RECURSIVE SliceLoop(_, _, _, _)
SliceLoop(in, e, j, acc) ==
    IF j > Len(in)
    THEN [val |-> SliceOfV(e, acc.elems), err |-> NoErr, backing |-> acc.backing]
    ELSE IF ~TypeAssert(in[j], e)
    THEN [val |-> NilSliceOf(e),
          err |-> ErrorfValue(ErrUnableToConvert, in[j], TypeName(ZeroOf(e))),
          backing |-> "none"]
    ELSE SliceLoop(in, e, j + 1, [acc EXCEPT !.elems[j] = in[j]])

\* asSliceType returning what it has converted so far on a failure.
AsSliceType_Partial(in, e) ==
    IF \A j \in 1..Len(in) : TypeAssert(in[j], e)
    THEN [val |-> SliceOfV(e, in), err |-> NoErr, backing |-> "fresh"]
    ELSE LET bad == CHOOSE j \in 1..Len(in) :
                        /\ ~TypeAssert(in[j], e)
                        /\ \A h \in 1..(j - 1) : TypeAssert(in[h], e)
         IN [val |-> SliceOfV(e, [j \in 1..Len(in) |->
                                     IF j < bad THEN in[j] ELSE ZeroOf(e)]),
             err |-> ErrorfValue(ErrUnableToConvert, in[bad], TypeName(ZeroOf(e))),
             backing |-> "fresh"]

\* asSliceType with the elements stored in reverse.
AsSliceType_Reversed(in, e) ==
    LET r == SliceLoop(in, e, 1, MakeSlice(in, e))
    IN IF r.err = NoErr
       THEN [r EXCEPT !.val = SliceOfV(e, [j \in 1..Len(in) |-> in[Len(in) + 1 - j]])]
       ELSE r

\* asSliceType(in): every element asserted to I, in order.
AsSliceType(in, e) == SliceLoop(in, e, 1, MakeSlice(in, e))

\* The loop of asMapType over the keys in the order ord, from position j on.
RECURSIVE MapLoop(_, _, _, _, _)
MapLoop(in, e, ord, j, acc) ==
    IF j > Len(ord)
    THEN [val |-> MapOfV(e, acc.elems), err |-> NoErr, backing |-> acc.backing]
    ELSE IF ~TypeAssert(in[ord[j]], e)
    THEN [val |-> NilMapOf(e),
          err |-> ErrorfValue(ErrUnableToConvert, in[ord[j]], TypeName(ZeroOf(e))),
          backing |-> "none"]
    ELSE MapLoop(in, e, ord, j + 1,
                 [acc EXCEPT !.elems = MapPut(acc.elems, ord[j], in[ord[j]])])

\* asMapType returning what it has converted so far on a failure.
AsMapType_Partial(in, e, ord) ==
    LET r == MapLoop(in, e, ord, 1, MakeMap(in, e))
        good == {j \in 1..Len(ord) : \A h \in 1..j : TypeAssert(in[ord[h]], e)}
    IN IF r.err = NoErr THEN r
       ELSE [r EXCEPT !.val = MapOfV(e, [k \in {ord[j] : j \in good} |-> in[k]])]

\* asMapType(in): every value asserted to R; `range in` visits the keys in
\* an order the runtime chooses (ord).
AsMapType(in, e, ord) == MapLoop(in, e, ord, 1, MakeMap(in, e))

\* The orders a range over a map with the key set S can take.
Orders(S) ==
    {o \in [1..Cardinality(S) -> S] :
        \A a, b \in 1..Cardinality(S) : a # b => o[a] # o[b]}

----------------------------------------------------------------------------
(* The inputs: trees and paths.                                            *)

\* The trees of the package documentation and of the tests.
DocArray ==        \* {"a": [0, 1, 2]}
    MapV(<<"a">> :> SeqV(<<FloatV(0, 0), FloatV(1, 0), FloatV(2, 0)>>))
DocDeep ==         \* {"a": [{"b": {"c": [0, 1, 2]}}]}
    MapV(<<"a">> :> SeqV(<<MapV(<<"b">> :> MapV(<<"c">> :> DocArray.val[<<"a">>]))>>))
DocIntKey ==       \* {"a": {"2": "2_val"}}
    MapV(<<"a">> :> MapV(<<"2">> :> StrV(<<"2", "_", "v", "a", "l">>)))
TestIntKey ==      \* {"0": "value"}
    MapV(<<"0">> :> StrV(<<"v", "a", "l", "u", "e">>))
TestLeaf ==        \* {"a": "b"}
    MapV(<<"a">> :> StrV(<<"b">>))
TestNumber ==      \* {"a": 42}
    MapV(<<"a">> :> FloatV(42, 0))
TestNull ==        \* {"a": null}
    MapV(<<"a">> :> Nil)
TestBytes ==       \* {"a": []byte("ab"), "b": true, "": "e"}
    MapV(<<"a">> :> BytesV(<<97, 98>>) @@ <<"b">> :> BoolV(TRUE) @@ <<>> :> StrV(<<"e">>))

\* Generated trees: nk top-level keys, the first holding a sequence of sl
\* elements of mixed kinds.
KeyNames == <<<<"a">>, <<"b">>, <<"c">>, <<"0">>, <<"1">>, <<"2">>>>

ElemAt(j) ==
    CASE j % 3 = 1 -> StrV(<<"x">>)
      [] j % 3 = 2 -> MapV(<<"b">> :> SeqV(<<BoolV(TRUE)>>) @@ <<"0">> :> Nil)
      [] OTHER -> SeqV(<<NumV("int", 7), Nil>>)

LeafAt(j) ==
    CASE j % 3 = 2 -> MapV(<<"0">> :> BoolV(FALSE) @@ <<>> :> Nil)
      [] j % 3 = 0 -> Nil
      [] OTHER -> FloatV(1, 0)

GenTree(nk, sl) ==
    MapV([k \in {KeyNames[j] : j \in 1..nk} |->
            IF k = KeyNames[1]
            THEN SeqV([j \in 1..sl |-> ElemAt(j)])
            ELSE LeafAt(CHOOSE j \in 1..nk : KeyNames[j] = k)])

Trees ==
    {DocArray, DocDeep, DocIntKey, TestIntKey, TestLeaf, TestNumber, TestNull,
     TestBytes}
    \cup {GenTree(nk, sl) : nk \in 1..MaxKeys, sl \in 0..MaxSeqLen}

\* Generated paths: 1..MaxSegs segments joined by ".".
Segments == {<<>>, <<"a">>, <<"b">>, <<"0">>, <<"1">>, <<"2">>, <<"-", "1">>}

RECURSIVE Join(_)
Join(ss) ==
    IF Len(ss) = 1 THEN ss[1] ELSE ss[1] \o <<".">> \o Join(Tail(ss))

BigLiteral ==      \* 9223372036854775808: one more than the largest int
    MinIntDigits
PaddedLiteral ==   \* 0000000000000000001: nineteen characters, the value 1
    <<"0","0","0","0","0","0","0","0","0","0","0","0","0","0","0","0","0","0","1">>

Paths ==
    {Join(ss) : ss \in UNION {[1..n -> Segments] : n \in 1..MaxSegs}}
    \cup {Join(<<<<"a">>, <<"0">>, <<"b">>, <<"c">>, <<"1">>>>),
          Join(<<<<"a">>, <<"b">>, <<"c">>>>),
          Join(<<<<"a">>, <<"+", "1">>>>),
          Join(<<<<"a">>, <<"1", "x">>>>),
          Join(<<<<"a">>, <<"-">>>>),
          Join(<<<<"a">>, BigLiteral>>),
          Join(<<<<"a">>, PaddedLiteral>>)}

\* The public operations and the type GetErr is instantiated with by each.
GetTypes == {"any", "string", "float64", "[]any", "map[string]any"}

Calls ==
    {<<"GetErr", t>> : t \in GetTypes}
    \cup {<<"StrErr", "string">>, <<"BoolErr", "bool">>, <<"BytesErr", "any">>}

\* Operations that return GetErr's results as they are.
TailCalls == {"GetErr", "StrErr", "BoolErr"}

----------------------------------------------------------------------------
(* The state machine.                                                      *)

Init ==
    /\ pc = "idle"
    /\ op = "none"
    /\ T = "any"
    /\ source = NilMap
    /\ path = <<>>
    /\ keys = <<>>
    /\ depth = 0
    /\ i = 0
    /\ current = Nil
    /\ got = [val |-> Nil, err |-> NoErr]
    /\ result = Nil
    /\ err = NoErr
    /\ E = ""
    /\ variant = "Err"
    /\ d = Nil
    /\ ret = Nil
    /\ order = <<>>
    /\ backing = "none"

\* A public operation is called and GetErr runs up to its loop:
\* keys := strings.Split(path, "."); depth := len(keys) - 1; current = source
Call(o, t, src, p) ==
    /\ pc = "idle"
    /\ pc' = "loop"
    /\ op' = o
    /\ T' = t
    /\ source' = src
    /\ path' = p
    /\ keys' = Split(p)
    /\ depth' = Len(Split(p)) - 1
    /\ i' = 0
    /\ current' = src
    /\ UNCHANGED <<got, result, err>>
    /\ UNCHANGED ovars

\* One iteration of GetErr's loop, or, the range exhausted, the return
\* after the loop.
GetErrStep ==
    /\ pc = "loop"
    /\ LET out == IF i < Len(keys)
                  THEN LoopBody(current, keys, i, depth, T, source)
                  ELSE [kind |-> "return", val |-> ZeroOf(T), err |-> NoErr,
                        cur |-> current]
       IN /\ current' = out.cur
          /\ CASE out.kind = "cont" ->
                    /\ pc' = "loop"
                    /\ i' = i + 1
                    /\ UNCHANGED <<got, result, err>>
               [] out.kind = "panic" ->
                    /\ pc' = "panic"
                    /\ UNCHANGED <<i, got, result, err>>
               [] OTHER ->
                    /\ got' = [val |-> out.val, err |-> out.err]
                    /\ IF op \in TailCalls
                       THEN pc' = "done" /\ result' = out.val /\ err' = out.err
                       ELSE pc' = "got" /\ UNCHANGED <<result, err>>
                    /\ UNCHANGED i
    /\ UNCHANGED <<op, T, source, path, keys, depth>>
    /\ UNCHANGED ovars

\* BytesErr after GetErr[any] returned.
BytesErrReturn ==
    /\ pc = "got"
    /\ op = "BytesErr"
    /\ pc' = "done"
    /\ IF got.err # NoErr
       THEN result' = NilBytes /\ err' = got.err
       ELSE LET b == BytesConv(got.val)
            IN result' = b.val /\ err' = b.err
    /\ UNCHANGED <<op, T, source, path, keys, depth, i, current, got>>
    /\ UNCHANGED ovars

Next ==
    \/ /\ pc = "idle"
       /\ \E c \in Calls, src \in Trees, p \in Paths : Call(c[1], c[2], src, p)
    \/ GetErrStep
    \/ BytesErrReturn

Spec == Init /\ [][Next]_vars

----------------------------------------------------------------------------
(* The typed operations: NumberErr, IntErr, Float64Err, SliceErr, MapErr,  *)
(* BytesErr, StrErr, BoolErr, GetErr, each with its error-dropping variant *)
(* X and, where the package has one, its XDefault variant.                 *)

\* The numbers held by the trees, by kind (floats in tenths).
NumValues ==
    {NumV("float64", x) : x \in {0, 10, 12, 15, -10, -5, 3000, 420}}
    \cup {NumV("int", x) : x \in {0, 1, -1, 200, 300, -129, 70000}}
    \cup {NumV("int8", x) : x \in {0, 1, -1, 127, -128}}
    \cup {NumV("int16", x) : x \in {1, -1, 200, 300, -32768}}
    \cup {NumV("uint8", x) : x \in {0, 1, 127, 128, 200, 255}}
    \cup {NumV("uint16", x) : x \in {1, 255, 256, 32768, 65535}}

\* The elements of the generated slices and maps, and the types asked for.
ElemValues == {BoolV(TRUE), StrV(<<"x">>), FloatV(1, 0), Nil}
ElemTypes == {"bool", "float64", "int", "any"}

TestMixed ==       \* {"a": [true, "false", true]}
    MapV(<<"a">> :> SeqV(<<BoolV(TRUE), StrV(<<"f", "a", "l", "s", "e">>), BoolV(TRUE)>>))
TestBools ==       \* {"a": [true, false, true]}
    MapV(<<"a">> :> SeqV(<<BoolV(TRUE), BoolV(FALSE), BoolV(TRUE)>>))
TestMap ==         \* {"a": {"b": true}}
    MapV(<<"a">> :> MapV(<<"b">> :> BoolV(TRUE)))
TestString ==      \* {"a": "1"}
    MapV(<<"a">> :> StrV(<<"1">>))

NumTrees == {MapV(<<"a">> :> n) : n \in NumValues}
SeqTrees ==
    {MapV(<<"a">> :> SeqV(es)) : es \in UNION {[1..n -> ElemValues] : n \in 0..MaxElems}}
    \cup {TestMixed, TestBools}
MapTrees ==
    {MapV(<<"a">> :> MapV(m)) :
        m \in UNION {[ks -> ElemValues] :
                        ks \in SUBSET {KeyNames[j] : j \in 1..MaxElems}}}
    \cup {TestMap}
MiscTrees ==
    {TestLeaf, TestNumber, TestNull, TestBytes, TestString, TestMixed, TestMap,
     DocIntKey, GenTree(2, 1), MapV(<<"a">> :> FloatV(0, 0)),
     MapV(<<"a">> :> BoolV(FALSE)), MapV(<<"a">> :> StrV(<<>>)),
     MapV(<<"a">> :> SeqV(<<>>)), MapV(<<"a">> :> MapV(<<>>))}

OpPaths ==
    {<<"a">>, <<"b">>, <<>>, <<"a", ".", "0">>, <<"a", ".", "1">>,
     <<"a", ".", "b">>, <<"a", ".", "b", ".", "c">>}

\* The calls: the operation, the type GetErr is instantiated with, and the
\* type parameter of the operation itself.
NumberOps == {"NumberErr", "IntErr", "Float64Err"}

OpCalls ==
    {[op |-> "GetErr", T |-> t, E |-> ""] : t \in {"any", "string"}}
    \cup {[op |-> "StrErr", T |-> "string", E |-> ""],
          [op |-> "BoolErr", T |-> "bool", E |-> ""],
          [op |-> "BytesErr", T |-> "any", E |-> ""],
          [op |-> "IntErr", T |-> "any", E |-> "int"],
          [op |-> "Float64Err", T |-> "any", E |-> "float64"]}
    \cup {[op |-> "NumberErr", T |-> "any", E |-> k] : k \in NumKinds}
    \cup {[op |-> "SliceErr", T |-> "[]any", E |-> e] : e \in ElemTypes}
    \cup {[op |-> "MapErr", T |-> "map[string]any", E |-> e] : e \in ElemTypes}

\* The trees each operation is called with.
TreesFor(c) ==
    MiscTrees \cup
    CASE c.op \in NumberOps -> NumTrees
      [] c.op = "SliceErr" -> SeqTrees
      [] c.op = "MapErr" -> MapTrees
      [] OTHER -> {}

\* The type of the value the operation returns.
TargetType(o, e) ==
    CASE o = "StrErr" -> "string"
      [] o = "BoolErr" -> "bool"
      [] o = "BytesErr" -> "[]byte"
      [] o \in NumberOps -> e
      [] o = "SliceErr" -> "[]" \o e
      [] o = "MapErr" -> "map[string]" \o e

\* The zero value of the type the operation returns (of T for GetErr).
TargetZero(o, t, e) ==
    CASE o = "GetErr" -> ZeroOf(t)
      [] o = "SliceErr" -> NilSliceOf(e)
      [] o = "MapErr" -> NilMapOf(e)
      [] OTHER -> ZeroOf(TargetType(o, e))

\* The operations that have an XDefault variant, and the fallbacks passed.
DefaultOps ==
    {"StrErr", "IntErr", "Float64Err", "BoolErr", "BytesErr", "SliceErr", "MapErr"}

Fallbacks(o, e) ==
    CASE o = "StrErr" -> {StrV(<<>>), StrV(<<"d">>)}
      [] o = "BoolErr" -> {BoolV(FALSE), BoolV(TRUE)}
      [] o = "BytesErr" -> {BytesV(<<>>), BytesV(<<100>>)}
      [] o = "IntErr" -> {NumV("int", 0), NumV("int", 2)}
      [] o = "Float64Err" -> {FloatV(0, 0), FloatV(1, 0)}
      [] o = "SliceErr" -> {SliceOfV(e, <<>>)}
      [] o = "MapErr" -> {MapOfV(e, <<>>)}

\* The variants of a call: [variant, d].
VariantsOf(c) ==
    {[variant |-> v, d |-> Nil] : v \in {"Err", "Plain"}}
    \cup IF c.op \in DefaultOps
         THEN {[variant |-> "Default", d |-> f] : f \in Fallbacks(c.op, c.E)}
         ELSE {}

\* X, XErr or XDefault is called: XErr calls GetErr, which runs up to its loop.
OpCall(c, v, src, p) ==
    /\ pc = "idle"
    /\ pc' = "loop"
    /\ op' = c.op
    /\ T' = c.T
    /\ E' = c.E
    /\ variant' = v.variant
    /\ d' = v.d
    /\ source' = src
    /\ path' = p
    /\ keys' = Split(p)
    /\ depth' = Len(Split(p)) - 1
    /\ i' = 0
    /\ current' = src
    /\ UNCHANGED <<got, result, err, ret, order, backing>>

\* NumberErr (IntErr, Float64Err) after GetErr[any] returned.
NumberErrReturn ==
    /\ pc = "got"
    /\ op \in NumberOps
    /\ pc' = "done"
    /\ IF got.err # NoErr
       THEN result' = NumV(E, 0) /\ err' = got.err
       ELSE LET n == AsNumberType(got.val, E)
            IN result' = n.val /\ err' = n.err
    /\ UNCHANGED <<op, T, source, path, keys, depth, i, current, got>>
    /\ UNCHANGED ovars

\* SliceErr after GetErr[[]any] returned.
SliceErrReturn ==
    /\ pc = "got"
    /\ op = "SliceErr"
    /\ pc' = "done"
    /\ IF got.err # NoErr
       THEN result' = NilSliceOf(E) /\ err' = got.err /\ backing' = "none"
       ELSE LET r == AsSliceType(got.val.val, E)
            IN result' = r.val /\ err' = r.err /\ backing' = r.backing
    /\ UNCHANGED <<op, T, source, path, keys, depth, i, current, got>>
    /\ UNCHANGED <<E, variant, d, ret, order>>

\* MapErr reporting every failure as a failed conversion.
MapErrReturn_WrapsError ==
    /\ pc = "got"
    /\ op = "MapErr"
    /\ pc' = "done"
    /\ IF got.err # NoErr
       THEN result' = NilMapOf(E) /\ backing' = "none" /\ order' = <<>>
            /\ err' = ErrorfValue(ErrUnableToConvert, got.val, TargetType(op, E))
       ELSE \E ord \in Orders(DOMAIN got.val.val) :
               LET r == AsMapType(got.val.val, E, ord)
               IN /\ result' = r.val
                  /\ err' = r.err
                  /\ backing' = r.backing
                  /\ order' = ord
    /\ UNCHANGED <<op, T, source, path, keys, depth, i, current, got>>
    /\ UNCHANGED <<E, variant, d, ret>>

\* MapErr after GetErr[map[string]any] returned.
MapErrReturn ==
    /\ pc = "got"
    /\ op = "MapErr"
    /\ pc' = "done"
    /\ IF got.err # NoErr
       THEN result' = NilMapOf(E) /\ err' = got.err /\ backing' = "none"
            /\ order' = <<>>
       ELSE \E ord \in Orders(DOMAIN got.val.val) :
               LET r == AsMapType(got.val.val, E, ord)
               IN /\ result' = r.val
                  /\ err' = r.err
                  /\ backing' = r.backing
                  /\ order' = ord
    /\ UNCHANGED <<op, T, source, path, keys, depth, i, current, got>>
    /\ UNCHANGED <<E, variant, d, ret>>

\* withoutError(XErr(source, path)): X returns the value, the error dropped.
WithoutError ==
    /\ pc = "done"
    /\ variant = "Plain"
    /\ pc' = "returned"
    /\ ret' = result
    /\ UNCHANGED <<op, T, source, path, keys, depth, i, current, got, result, err>>
    /\ UNCHANGED <<E, variant, d, order, backing>>

\* Whether v is the zero value of its type.
IsZeroValue(v) ==
    CASE v.type \in {"string", "[]byte"} -> v.val = <<>>
      [] v.type = "bool" -> v.val = FALSE
      [] v.type \in NumKinds -> v.val = 0
      [] OTHER -> v.isnil

\* XDefault taking a zero value for a missing one.
OrDefault_ZeroIsMissing(value, e, fallback) ==
    IF e # NoErr \/ IsZeroValue(value) THEN fallback ELSE value

\* The value XDefault returns for the results of XErr and the fallback.
OrDefault(value, e, fallback) == IF e # NoErr THEN fallback ELSE value

\* XDefault(source, path, d)
DefaultReturn ==
    /\ pc = "done"
    /\ variant = "Default"
    /\ pc' = "returned"
    /\ ret' = OrDefault(result, err, d)
    /\ UNCHANGED <<op, T, source, path, keys, depth, i, current, got, result, err>>
    /\ UNCHANGED <<E, variant, d, order, backing>>

OpsNext ==
    \/ /\ pc = "idle"
       /\ \E c \in OpCalls : \E v \in VariantsOf(c), src \in TreesFor(c), p \in OpPaths :
             OpCall(c, v, src, p)
    \/ GetErrStep
    \/ BytesErrReturn
    \/ NumberErrReturn
    \/ SliceErrReturn
    \/ MapErrReturn
    \/ WithoutError
    \/ DefaultReturn

OpsSpec == Init /\ [][OpsNext]_vars

----------------------------------------------------------------------------
(* What the claims speak of.                                               *)

Returned == pc \in {"got", "done"}
IsMap(n) == n.type = "map[string]any"
IsSeq(n) == n.type = "[]any"
ResolverKinds ==
    {ErrKeyNotFound, ErrIndexOutOfBounds, ErrNonIntegerSliceAccess,
     ErrEndOfNestedStructures}

\* The walk ended at the last segment without a resolver error: `current`
\* is the node the type assertion was applied to.
Resolved == Returned /\ got.err.kind \notin ResolverKinds

\* A base-10 integer literal: an optional sign, then digits only.
IsIntLiteral(seg) ==
    LET ds == IF Len(seg) > 0 /\ seg[1] \in {"+", "-"} THEN Tail(seg) ELSE seg
    IN Len(ds) > 0 /\ \A j \in 1..Len(ds) : ds[j] \in Digits

LiteralDigits(seg) ==
    StripZeros(IF seg[1] \in {"+", "-"} THEN Tail(seg) ELSE seg)

\* The literal's value fits a 64-bit int.
LiteralFitsInt(seg) ==
    DigitsLeq(LiteralDigits(seg), IF seg[1] = "-" THEN MinIntDigits ELSE MaxIntDigits)

\* The value of a literal of at most nine significant digits.
LiteralValue(seg) ==
    IF seg[1] = "-" THEN 0 - DecVal(LiteralDigits(seg)) ELSE DecVal(LiteralDigits(seg))

\* The segment is an in-range index of the sequence n.
IsIndexOf(seg, n) ==
    /\ IsIntLiteral(seg)
    /\ Len(LiteralDigits(seg)) <= 9
    /\ LiteralValue(seg) >= 0
    /\ LiteralValue(seg) < Len(n.val)

\* Following the segments from node n, each as a key of the mapping or an
\* index of the sequence reached so far: [ok, node].
RECURSIVE Reach(_, _)
Reach(n, segs) ==
    IF Len(segs) = 0 THEN [ok |-> TRUE, node |-> n]
    ELSE IF IsMap(n) /\ segs[1] \in DOMAIN n.val
    THEN Reach(n.val[segs[1]], Tail(segs))
    ELSE IF IsSeq(n) /\ IsIndexOf(segs[1], n)
    THEN Reach(n.val[LiteralValue(segs[1]) + 1], Tail(segs))
    ELSE [ok |-> FALSE, node |-> Nil]

PathA2 == <<"a", ".", "2">>
PathDeep == <<"a", ".", "0", ".", "b", ".", "c", ".", "1">>

\* C1: for every tree and every path whose segments are, in order, existing
\* keys of the mappings and in-range indexes of the sequences reached,
\* GetErr[any] succeeds and returns the node reached (a non-null one here);
\* {"a": [0,1,2]} with "a.2" gives 2, the deep example with "a.0.b.c.1" gives 1.
C1_ValidPathResolves ==
    (/\ pc \in {"done", "panic"}
     /\ op = "GetErr"
     /\ T = "any"
     /\ Reach(source, keys).ok
     /\ Reach(source, keys).node.type # "nil")
    => /\ pc = "done"
       /\ err = NoErr
       /\ result = Reach(source, keys).node
       /\ (source = DocArray /\ path = PathA2 => result = FloatV(2, 0))
       /\ (source = DocDeep /\ path = PathDeep => result = FloatV(1, 0))

\* C2: at a sequence node with a segment that parses to n, the call fails
\* with ErrIndexOutOfBounds if and only if n < 0 or n >= the length of that
\* sequence, whatever the size of the top-level mapping.
C2_BoundsOfIndexedSequence ==
    [][(/\ pc = "loop"
        /\ i < Len(keys)
        /\ IsSeq(current)
        /\ IsIntLiteral(keys[i + 1])
        /\ Len(LiteralDigits(keys[i + 1])) <= 9)
       => ((pc' \in {"got", "done"} /\ got'.err.kind = ErrIndexOutOfBounds)
           <=> (\/ LiteralValue(keys[i + 1]) < 0
                \/ LiteralValue(keys[i + 1]) >= Len(current.val)))]_vars

\* C3: every lookup ends by returning a value or one of the six error kinds;
\* the walk never indexes a sequence outside 0..len-1 (no runtime panic).
C3_NoPanic ==
    /\ pc # "panic"
    /\ (pc = "done" => err = NoErr \/ err.kind \in ErrorKinds)

\* C4: whenever GetErr returns without error, the returned node is the node
\* obtained by consuming every segment as a key or index step; never the
\* scalar or null node the last segment could not be applied to.
C4_SuccessConsumesEverySegment ==
    (Returned /\ got.err = NoErr)
    => (Reach(source, keys).ok /\ got.val = Reach(source, keys).node)

\* C5: at a segment i that is not the last one, a scalar or null current node
\* makes GetErr fail with ErrEndOfNestedStructures naming segment i.
C5_EndOfNestedStructures ==
    [][(/\ pc = "loop"
        /\ i < Len(keys) - 1
        /\ ~IsMap(current)
        /\ ~IsSeq(current))
       => (/\ pc' \in {"got", "done"}
           /\ got'.err.kind = ErrEndOfNestedStructures
           /\ got'.err.key = keys[i + 1]
           /\ i' = i
           /\ got'.val = ZeroOf(T))]_vars

C5_Witness ==
    /\ pc = "done"
    /\ source = TestLeaf
    /\ path = <<"a", ".", "b", ".", "c">>
    /\ err.kind = ErrEndOfNestedStructures
    /\ err.key = <<"b">>

\* C6: at a mapping the segment is looked up as a key and never parsed as an
\* index, also when it is an integer literal: {"a": {"2": "2_val"}} with
\* "a.2" gives "2_val", {"0": "value"} with "0" gives "value".
C6_MappingKeyBeforeIndex ==
    [][/\ (/\ pc = "loop"
           /\ i < Len(keys)
           /\ IsMap(current)
           /\ keys[i + 1] \in DOMAIN current.val)
          => (/\ pc' # "panic"
              /\ current' = current.val[keys[i + 1]]
              /\ (pc' \in {"got", "done"} => got'.err.kind \notin ResolverKinds))
       /\ (pc' = "done" /\ op = "GetErr" /\ T = "any" /\ source = DocIntKey /\ path = PathA2)
          => (err' = NoErr /\ result' = StrV(<<"2", "_", "v", "a", "l">>))
       /\ (pc' = "done" /\ op = "GetErr" /\ T = "any" /\ source = TestIntKey /\ path = <<"0">>)
          => (err' = NoErr /\ result' = StrV(<<"v", "a", "l", "u", "e">>))]_vars

C6_Witness ==
    /\ pc = "done"
    /\ source = DocIntKey
    /\ path = PathA2
    /\ i = 1
    /\ IsIntLiteral(keys[i + 1])
    /\ result = StrV(<<"2", "_", "v", "a", "l">>)

\* C7: at any depth, a mapping without an entry for the segment (the empty
\* segment included) makes GetErr fail with ErrKeyNotFound carrying that
\* segment, and the walk stops there.
C7_KeyNotFound ==
    [][(/\ pc = "loop"
        /\ i < Len(keys)
        /\ IsMap(current)
        /\ keys[i + 1] \notin DOMAIN current.val)
       => (/\ pc' \in {"got", "done"}
           /\ got'.err.kind = ErrKeyNotFound
           /\ got'.err.key = keys[i + 1]
           /\ got'.val = ZeroOf(T)
           /\ i' = i
           /\ current' = current)]_vars

\* "a..b": the empty second segment is the missing key, "b" is never looked at.
C7_Witness ==
    /\ pc = "done"
    /\ path = <<"a", ".", ".", "b">>
    /\ i = 1
    /\ IsMap(current)
    /\ err.kind = ErrKeyNotFound
    /\ err.key = <<>>

\* C8 as claimed: at a sequence, a segment that is not an integer literal
\* fails with ErrNonIntegerSliceAccess, and every literal is accepted as an
\* index (a negative one then fails with ErrIndexOutOfBounds).
C8_EveryLiteralIsAnIndex ==
    [][(pc = "loop" /\ i < Len(keys) /\ IsSeq(current))
       => /\ ~IsIntLiteral(keys[i + 1])
             => (/\ pc' \in {"got", "done"}
                 /\ got'.err.kind = ErrNonIntegerSliceAccess
                 /\ got'.err.key = keys[i + 1])
          /\ IsIntLiteral(keys[i + 1])
             => ~(pc' \in {"got", "done"} /\ got'.err.kind = ErrNonIntegerSliceAccess)]_vars

\* C8, amended: at a sequence, a segment fails with ErrNonIntegerSliceAccess
\* exactly when it is not an integer literal or is a literal whose value does
\* not fit an int; a literal that fits is checked against the bounds only,
\* a negative one failing with ErrIndexOutOfBounds.
C8_LiteralsThatFitAreIndexes ==
    [][(pc = "loop" /\ i < Len(keys) /\ IsSeq(current))
       => LET k == keys[i + 1]
              isIndex == IsIntLiteral(k) /\ LiteralFitsInt(k)
          IN /\ ~isIndex
                => (/\ pc' \in {"got", "done"}
                    /\ got'.err.kind = ErrNonIntegerSliceAccess
                    /\ got'.err.key = k
                    /\ i' = i)
             /\ isIndex
                => ~(pc' \in {"got", "done"} /\ got'.err.kind = ErrNonIntegerSliceAccess)
             /\ (isIndex /\ Len(LiteralDigits(k)) <= 9 /\ LiteralValue(k) < 0)
                => (/\ pc' \in {"got", "done"}
                    /\ got'.err.kind = ErrIndexOutOfBounds
                    /\ got'.err.index = LiteralValue(k))]_vars

C8_Witness ==
    /\ pc = "done"
    /\ IsSeq(current)
    /\ keys[i + 1] = BigLiteral
    /\ IsIntLiteral(keys[i + 1])
    /\ err.kind = ErrNonIntegerSliceAccess

\* C9: once the path is walked, GetErr[T] succeeds if and only if the dynamic
\* type of the node reached is exactly T, returning that node unchanged; it
\* fails with ErrUnexpectedType otherwise; a null node fails for every T.
C9_ExactTypeOrUnexpectedType ==
    Resolved
    => /\ T # "any" => (got.err = NoErr <=> current.type = T)
       /\ current.type = "nil" => got.err # NoErr
       /\ got.err = NoErr => got.val = current
       /\ got.err # NoErr
          => (/\ got.err.kind = ErrUnexpectedType
              /\ got.err.typ = TypeName(current)
              /\ got.val = ZeroOf(T))

\* {"a": 42} asked as a string: a number is not turned into a string.
C9_Witness ==
    /\ pc = "done"
    /\ op = "StrErr"
    /\ current = FloatV(42, 0)
    /\ err.kind = ErrUnexpectedType
    /\ result = StrV(<<>>)

NodeBytes(n) == [j \in 1..Len(n.val) |-> ByteOf(n.val[j])]

\* C10 as claimed: BytesErr succeeds exactly on a byte sequence (returned as
\* is) or a string (its bytes); every other node, null included, fails with
\* ErrUnableToConvert.
C10_BytesOrUnableToConvert ==
    (pc = "done" /\ op = "BytesErr" /\ Resolved)
    => CASE current.type = "[]byte" -> err = NoErr /\ result = current
         [] current.type = "string" -> err = NoErr /\ result = BytesV(NodeBytes(current))
         [] OTHER -> err.kind = ErrUnableToConvert /\ result = NilBytes

\* C10, amended: as claimed for byte sequences, strings, booleans, numbers,
\* mappings and sequences; a null node fails with ErrUnexpectedType.
C10_BytesNullUnexpectedType ==
    (pc = "done" /\ op = "BytesErr" /\ Resolved)
    => CASE current.type = "[]byte" -> err = NoErr /\ result = current
         [] current.type = "string" -> err = NoErr /\ result = BytesV(NodeBytes(current))
         [] current.type = "nil" -> err.kind = ErrUnexpectedType /\ result = NilBytes
         [] OTHER -> err.kind = ErrUnableToConvert /\ result = NilBytes

C10_Witness ==
    /\ pc = "done"
    /\ op = "BytesErr"
    /\ source = TestNull
    /\ current.type = "nil"
    /\ err.kind = ErrUnexpectedType

----------------------------------------------------------------------------
(* The typed operations: what the claims speak of.                         *)

\* XErr has returned (X and XDefault may still have to).
OpReturned == pc \in {"done", "returned"}

\* The number a numeric value stands for, in tenths.
Tenths(n) == IF n.type = "float64" THEN n.val ELSE 10 * n.val

\* C11: for a raw value x of a numeric kind S and a target kind N,
\* NumberErr[N] succeeds with N(x) if and only if S(N(x)) = x and fails with
\* ErrUnableToConvert otherwise, by the one rule for every pair of kinds;
\* float 1 as int is 1, float 1.2 and 1.5 as int fail.
C11_RoundTripRule ==
    (OpReturned /\ op \in NumberOps /\ got.err = NoErr /\ got.val.type \in NumKinds)
    => LET S == got.val.type
           x == got.val.val
       IN /\ err = NoErr <=> Convert(S, E, Convert(E, S, x)) = x
          /\ err = NoErr => result = NumV(E, Convert(E, S, x))
          /\ err # NoErr => (err.kind = ErrUnableToConvert /\ result = NumV(E, 0))
          /\ (got.val = FloatV(1, 0) /\ E = "int")
             => (err = NoErr /\ result = NumV("int", 1))
          /\ (got.val \in {FloatV(1, 2), FloatV(1, 5)} /\ E = "int")
             => err.kind = ErrUnableToConvert

C11_Witness ==
    /\ pc = "done"
    /\ op = "IntErr"
    /\ got.val = FloatV(1, 5)
    /\ err.kind = ErrUnableToConvert
    /\ result = NumV("int", 0)

\* C12: whenever NumberErr[N] (IntErr, Float64Err) succeeds, the value
\* returned is numerically equal to the raw value of the tree, for every
\* pair of kinds, signed and unsigned of any widths included.
C12_SuccessKeepsTheNumber ==
    (OpReturned /\ op \in NumberOps /\ err = NoErr)
    => Tenths(result) = Tenths(got.val)

\* C13: NumberErr[N] on a node that is not of a numeric kind (string,
\* boolean, byte sequence, null, mapping, sequence) fails with
\* ErrUnexpectedType, never with ErrUnableToConvert; "1" is not parsed.
C13_NonNumericUnexpectedType ==
    (OpReturned /\ op \in NumberOps /\ Resolved /\ current.type \notin NumKinds)
    => /\ err.kind = ErrUnexpectedType
       /\ err.typ = TypeName(current)
       /\ result = NumV(E, 0)

C13_Witness ==
    /\ pc = "done"
    /\ op = "IntErr"
    /\ source = TestString
    /\ current = StrV(<<"1">>)
    /\ err.kind = ErrUnexpectedType

\* Whether the dynamic type of the element v is exactly e.
Conforms(v, e) == IF e = "any" THEN v.type # "nil" ELSE v.type = e

\* The elements of the resolved sequence or mapping.
Elements == got.val.val

\* SliceErr or MapErr has returned and GetErr had resolved the container.
ContainerReturned ==
    OpReturned /\ op \in {"SliceErr", "MapErr"} /\ got.err = NoErr

\* C14: SliceErr[E] and MapErr[E] are all-or-nothing: if any element of the
\* resolved sequence (any value of the resolved mapping) has a dynamic type
\* that is not exactly E, a number convertible to E included, the call
\* fails with ErrUnableToConvert and returns a nil container, never a
\* partly converted one.
C14_AllOrNothing ==
    (ContainerReturned /\ \E j \in DOMAIN Elements : ~Conforms(Elements[j], E))
    => /\ err.kind = ErrUnableToConvert
       /\ result.isnil
       /\ result.val = <<>>
       /\ result.type = TargetType(op, E)

C14_Witness ==
    /\ pc = "done"
    /\ op = "SliceErr"
    /\ E = "bool"
    /\ source = TestMixed
    /\ path = <<"a">>
    /\ err.kind = ErrUnableToConvert
    /\ result = NilSliceOf("bool")

\* C15: when every element of the resolved container has dynamic type E,
\* SliceErr[E] returns a sequence of the same length with the same elements
\* in the same order, and MapErr[E] a mapping with the same set of keys,
\* each with the same value.
C15_SameElements ==
    (ContainerReturned /\ \A j \in DOMAIN Elements : Conforms(Elements[j], E))
    => /\ err = NoErr
       /\ ~result.isnil
       /\ result.type = TargetType(op, E)
       /\ DOMAIN result.val = DOMAIN Elements
       /\ \A j \in DOMAIN Elements : result.val[j] = Elements[j]
       /\ op = "SliceErr" => Len(result.val) = Len(Elements)

C15_Witness ==
    /\ pc = "done"
    /\ op = "SliceErr"
    /\ E = "bool"
    /\ source = TestBools
    /\ path = <<"a">>
    /\ err = NoErr
    /\ result = SliceOfV("bool", <<BoolV(TRUE), BoolV(FALSE), BoolV(TRUE)>>)

\* C16: for every pair X / XErr (Get, Str, Bool, Bytes, Int, Float64,
\* Number, Slice, Map), X returns exactly the value XErr returns for the
\* same arguments; whenever XErr returns an error, that value is the zero or
\* empty value of the target type.
C16_PlainReturnsTheValueOfErr ==
    /\ (pc = "returned" /\ variant = "Plain") => ret = result
    /\ (OpReturned /\ err # NoErr) => result = TargetZero(op, T, E)

C16_Witness ==
    /\ pc = "returned"
    /\ variant = "Plain"
    /\ op = "IntErr"
    /\ got.val = FloatV(1, 5)
    /\ err.kind = ErrUnableToConvert
    /\ ret = NumV("int", 0)

\* C17: each XDefault (Str, Int, Float64, Bool, Bytes, Slice, Map) returns
\* the fallback d verbatim whenever XErr returns an error of any kind, and
\* otherwise the resolved value, even when that value equals the zero value
\* of the type.
C17_DefaultOnlyOnError ==
    (pc = "returned" /\ variant = "Default")
    => /\ err # NoErr => ret = d
       /\ err = NoErr => ret = result

C17_Witness ==
    /\ pc = "returned"
    /\ variant = "Default"
    /\ op = "StrErr"
    /\ err = NoErr
    /\ result = StrV(<<>>)
    /\ d = StrV(<<"d">>)
    /\ ret = StrV(<<>>)

\* C18: a failure of the path resolution (ErrKeyNotFound,
\* ErrIndexOutOfBounds, ErrNonIntegerSliceAccess, ErrEndOfNestedStructures,
\* ErrUnexpectedType) is returned with the same kind and detail by every
\* typed wrapper, none re-wrapping it as another kind; every error returned
\* is of one of the six kinds.
C18_ResolutionErrorsPassThrough ==
    OpReturned
    => /\ got.err # NoErr => err = got.err
       /\ err # NoErr => err.kind \in ErrorKinds

C18_Witness ==
    /\ pc = "done"
    /\ op = "MapErr"
    /\ path = <<"b">>
    /\ got.err.kind = ErrKeyNotFound
    /\ err.kind = ErrKeyNotFound

\* C19: no operation changes the tree it is given: from the call to the
\* return the tree is the one passed in; the sequences and mappings that
\* SliceErr and MapErr return are newly built, not the input's.
C19_TreeUntouched ==
    [][/\ pc # "idle" => source' = source
       /\ (pc' = "done" /\ op \in {"SliceErr", "MapErr"} /\ err' = NoErr)
          => backing' = "fresh"]_vars

C19_Witness ==
    /\ pc = "done"
    /\ op = "SliceErr"
    /\ source = TestBools
    /\ path = <<"a">>
    /\ err = NoErr
    /\ Len(result.val) = 3
    /\ backing = "fresh"

\* C20: the outcome of MapErr[E] (success or failure, the kind of the
\* error, the mapping returned) is the same for every order in which the
\* values of the mapping are visited; only the offending element named in
\* the detail of the error may differ.
C20_OrderIndependent ==
    (OpReturned /\ op = "MapErr" /\ got.err = NoErr)
    => \A o \in Orders(DOMAIN Elements) :
          LET r == AsMapType(Elements, E, o)
          IN /\ r.err.kind = err.kind
             /\ r.val = result
             /\ r.err.typ = err.typ

C20_Witness ==
    /\ pc = "done"
    /\ op = "MapErr"
    /\ got.err = NoErr
    /\ err.kind = ErrUnableToConvert
    /\ \E o \in Orders(DOMAIN Elements) :
          AsMapType(Elements, E, o).err.value # err.value

\* C21: for every path, the empty one included (one empty segment), GetErr
\* leaves from inside its loop after at most one iteration per segment: the
\* loop is never exhausted, so the return of (zero value, no error) after it
\* is never taken, and a nil error means that the value returned is the node
\* reached and passed the type assertion.
C21_TrailingReturnUnreachable ==
    /\ pc # "idle" => (Len(keys) >= 1 /\ depth = Len(keys) - 1 /\ i <= depth)
    /\ pc = "loop" => i < Len(keys)
    /\ (Returned /\ got.err = NoErr)
       => (i = depth /\ TypeAssert(current, T) /\ got.val = current)

C21_Witness ==
    /\ Returned
    /\ path = <<>>
    /\ keys = << <<>> >>
    /\ i = 0
    /\ got.err.kind = ErrKeyNotFound
    /\ got.err.key = <<>>

====
